---------------------------- MODULE Spec2Model ----------------------------
(***************************************************************************)
(* A model of omicron/condor.py (LIGO-Omicron): get_dag_status,            *)
(* iterate_dag_status, find_rescue_dag, submit_dag and monitor_dag, with   *)
(* the scheduler (htcondor.Schedd), the filesystem and the submission      *)
(* tool as their environment.                                              *)
(***************************************************************************)
EXTENDS Integers, Sequences, FiniteSets, TLC

VARIABLES
    queue,      \* cluster ids of the DAGMan jobs in the scheduler's live queue
    history,    \* the scheduler's history log, oldest record first
    pc,         \* position of the get_dag_status call
    dagmanid,   \* get_dag_status argument
    detailed,   \* get_dag_status argument
    job,        \* get_dag_status local: the ad the query or the history gave
    nodes,      \* get_dag_status local: the ads of the node-job query
    status,     \* the dict get_dag_status builds and returns
    raised,     \* the exception a call let propagate, "" when none
    qlog,       \* the remote calls this get_dag_status call has issued
    answered,   \* what the scheduler answered: "ad", "empty" or "nodes"
    itPc,       \* position of the iterate_dag_status generator
    yielded,    \* the key sets of the snapshots the generator has yielded
    sleeps,     \* number of sleep(interval) calls of the generator
    files,      \* the files that exist: lock files and rescue DAGs
    fn,         \* the utility function called last, "" before any call
    fnPc,       \* its position: "idle", "monitoring", "returned", "raised"
    dagfile,    \* its argument
    result,     \* what it returned
    fnRaised,   \* the exception it let propagate, "" when none
    checks,     \* monitor_dag: stat(lock) calls made inside the loop
    cmd,        \* submit_dag: the command line handed to shell
    rc,         \* submit_dag: the exit status of condor_submit_dag
    out         \* submit_dag: the output shell(cmd) gave

schedVars == <<queue, history>>
callVars  == <<pc, dagmanid, detailed, job, nodes, status, raised, qlog>>
iterVars  == <<itPc, yielded, sleeps>>
toolVars  == <<cmd, rc, out>>
utilVars  == <<files, fn, fnPc, dagfile, result, fnRaised, checks, cmd, rc, out>>
vars == <<queue, history, pc, dagmanid, detailed, job, nodes, status, raised,
          qlog, answered, itPc, yielded, sleeps,
          files, fn, fnPc, dagfile, result, fnRaised, checks, cmd, rc, out>>

---------------------------------------------------------------------------
(* Bounds of the model.                                                    *)

\* number of node jobs one query returns, at most
MaxJobs == 2
\* records in the history when the model starts, at most
MaxOld == 2
\* snapshots one iterate_dag_status run yields while the DAG is in the queue,
\* at most
MaxLivePolls == 3

ClusterIds == {1, 2}
ExitCodes == {0, 1}

---------------------------------------------------------------------------
(* Module-level tables of condor.py.                                       *)

JOB_STATUS ==
    <<"Unexpanded", "Idle", "Running", "Removed", "Completed", "Held",
      "Submission error">>

\* str.lower on the names of JOB_STATUS
Lower(v) ==
    CASE v = "Unexpanded" -> "unexpanded"
      [] v = "Idle" -> "idle"
      [] v = "Running" -> "running"
      [] v = "Removed" -> "removed"
      [] v = "Completed" -> "completed"
      [] v = "Held" -> "held"
      [] v = "Submission error" -> "submission error"
      [] OTHER -> v

\* enumerate() counts from 0, sequences from 1
JOB_STATUS_MAP_OffByOne ==
    [n \in {Lower(JOB_STATUS[k]) : k \in DOMAIN JOB_STATUS} |->
        CHOOSE k \in DOMAIN JOB_STATUS : Lower(JOB_STATUS[k]) = n]

\* dict((v.lower(), k) for k, v in enumerate(JOB_STATUS))
JOB_STATUS_MAP ==
    [n \in {Lower(JOB_STATUS[k]) : k \in DOMAIN JOB_STATUS} |->
        (CHOOSE k \in DOMAIN JOB_STATUS : Lower(JOB_STATUS[k]) = n) - 1]

JobStatusCodes == 0 .. (Len(JOB_STATUS) - 1)

states == <<"total", "done", "queued", "ready", "unready", "failed">>

\* str.title on the names of states
Title(s) ==
    CASE s = "total" -> "Total"
      [] s = "done" -> "Done"
      [] s = "queued" -> "Queued"
      [] s = "ready" -> "Ready"
      [] s = "unready" -> "Unready"
      [] s = "failed" -> "Failed"
      [] OTHER -> s

\* 'DAG_Nodes%s' % s.title()
ClassadName(s) == "DAG_Nodes" \o Title(s)

classads == [i \in DOMAIN states |-> ClassadName(states[i])]

---------------------------------------------------------------------------
(* The scheduler: htcondor.Schedd as condor.py uses it.                    *)

\* The node counters of a DAGMan ad: samples of what a scheduler reports for
\* a DAG that has just started, is under way, and has nodes that failed.
DagAds ==
    {[DAG_NodesTotal |-> 4, DAG_NodesDone |-> 0, DAG_NodesQueued |-> 1,
      DAG_NodesReady |-> 1, DAG_NodesUnready |-> 2, DAG_NodesFailed |-> 0],
     [DAG_NodesTotal |-> 4, DAG_NodesDone |-> 2, DAG_NodesQueued |-> 1,
      DAG_NodesReady |-> 0, DAG_NodesUnready |-> 1, DAG_NodesFailed |-> 0],
     [DAG_NodesTotal |-> 4, DAG_NodesDone |-> 3, DAG_NodesQueued |-> 0,
      DAG_NodesReady |-> 0, DAG_NodesUnready |-> 0, DAG_NodesFailed |-> 1]}

NoJob == [none |-> TRUE]
NoResult == [none |-> TRUE]

\* the errors of the model
IndexError == "IndexError"

RECURSIVE SeqsUpTo(_, _)
SeqsUpTo(S, n) ==
    IF n = 0 THEN {<< >>}
    ELSE LET shorter == SeqsUpTo(S, n - 1)
         IN  shorter \cup {Append(q, x) : q \in shorter, x \in S}

RECURSIVE Reverse(_)
Reverse(s) == IF s = << >> THEN << >> ELSE Append(Reverse(Tail(s)), Head(s))

\* schedd.query('ClusterId == %d' % dagmanid, classads): the ads of the live
\* DAGMan jobs of that cluster, with the counters the scheduler reports now
QueryClusterId(c) ==
    IF c \in queue THEN {<<ad>> : ad \in DagAds} ELSE {<< >>}

\* schedd.query('DAGManJobId == %d' % dagmanid): the node jobs of that DAG in
\* the live queue, in any of the seven job states
QueryDAGManJobId(c) ==
    SeqsUpTo([DAGManJobId : {c}, JobStatus : JobStatusCodes], MaxJobs)

HistoryOldestFirst(c, match) ==
    LET found == SelectSeq(history, LAMBDA h : h.ClusterId = c)
    IN  SubSeq(found, 1, IF Len(found) < match THEN Len(found) ELSE match)

\* schedd.history('ClusterId == %d' % dagmanid, attrs, match): the matching
\* records, most recent first, at most `match` of them
HistoryQueryRecords(c, match) ==
    LET found == Reverse(SelectSeq(history, LAMBDA h : h.ClusterId = c))
    IN  SubSeq(found, 1, IF Len(found) < match THEN Len(found) ELSE match)

\* the ad of a history record: its ExitCode and the counters projected
HistoryAds(h) ==
    {[DAG_NodesTotal |-> ad.DAG_NodesTotal, DAG_NodesDone |-> ad.DAG_NodesDone,
      DAG_NodesQueued |-> ad.DAG_NodesQueued, DAG_NodesReady |-> ad.DAG_NodesReady,
      DAG_NodesUnready |-> ad.DAG_NodesUnready,
      DAG_NodesFailed |-> ad.DAG_NodesFailed,
      ExitCode |-> h.ExitCode] : ad \in DagAds}

---------------------------------------------------------------------------
(* get_dag_status                                                          *)

BaseKeys == {states[i] : i \in DOMAIN states}
DetailKeys == {"held", "running", "idle"}

IndexOf(s) == CHOOSE i \in DOMAIN states : states[i] = s

\* dict((s, job[c]) for s, c in zip(states, classads))
ZipStatus(ad) == [s \in BaseKeys |-> ad[classads[IndexOf(s)]]]

\* history['exitcode'] = job['ExitCode']
WithExitCode(d, ad) == d @@ ("exitcode" :> ad.ExitCode)

AlwaysDetail(d) == TRUE

\* if detailed:
WantsDetail(d) == d

RECURSIVE CountNodes(_, _)
\* the loop over nodes of get_dag_status
CountNodes(st, ns) ==
    IF ns = << >> THEN st
    ELSE LET code == Head(ns).JobStatus
             next ==
                IF code = JOB_STATUS_MAP["held"]
                THEN [st EXCEPT !["held"] = @ + 1]
                ELSE IF code = JOB_STATUS_MAP["running"]
                THEN [st EXCEPT !["running"] = @ + 1]
                ELSE IF code = JOB_STATUS_MAP["idle"]
                THEN [st EXCEPT !["idle"] = @ + 1]
                ELSE st
         IN  CountNodes(next, Tail(ns))

DetailZero(st) == st @@ ("held" :> 0) @@ ("running" :> 0) @@ ("idle" :> 0)

HistoryFirstRecord(c) == [op |-> "history", attr |-> "ClusterId", val |-> c]

LiveQueryRecord(c) == [op |-> "query", attr |-> "ClusterId", val |-> c]
HistoryRecord(c) == [op |-> "history", attr |-> "ClusterId", val |-> c]
NodeQueryRecord(c) == [op |-> "query", attr |-> "DAGManJobId", val |-> c]

\* control leaves get_dag_status with `return st`: a direct caller holds
\* the dict; the generator, whose frame called it, yields it at once
Return(st, j, ns) ==
    /\ status' = st
    /\ IF itPc = "polling"
       THEN /\ pc' = "idle"
            /\ job' = NoJob
            /\ nodes' = << >>
            /\ yielded' = Append(yielded, DOMAIN st)
            /\ itPc' = "yielded"
       ELSE /\ pc' = "returned"
            /\ job' = j
            /\ nodes' = ns
            /\ UNCHANGED <<itPc, yielded>>
    /\ UNCHANGED raised

\* the exception swallowed, and an empty dict returned in its place
RaiseSuppressed(e) == Return(<< >>, NoJob, << >>)

\* control leaves get_dag_status with the exception e, which the generator
\* does not catch either
Raise(e) ==
    /\ raised' = e
    /\ pc' = "raised"
    /\ itPc' = IF itPc = "polling" THEN "raised" ELSE itPc
    /\ UNCHANGED <<job, nodes, status, yielded>>

\* a caller calls get_dag_status(c, schedd, d)
Call(c, d) ==
    /\ UNCHANGED utilVars
    /\ itPc = "off"
    /\ pc \in {"idle", "returned", "raised"}
    /\ pc' = "live"
    /\ dagmanid' = c
    /\ detailed' = d
    /\ job' = NoJob
    /\ nodes' = << >>
    /\ status' = << >>
    /\ raised' = ""
    /\ qlog' = << >>
    /\ answered' = << >>
    /\ UNCHANGED <<schedVars, iterVars>>

\* job = schedd.query('ClusterId == %d' % dagmanid, classads)[0]; on an
\* IndexError control goes to the except clause, else status is built and,
\* with detailed off, returned
LiveQuery ==
    /\ UNCHANGED utilVars
    /\ pc = "live"
    /\ qlog' = Append(qlog, LiveQueryRecord(dagmanid))
    /\ \E answer \in QueryClusterId(dagmanid) :
        IF answer = << >>
        THEN /\ answered' = Append(answered, "empty")
             /\ pc' = "hist"
             /\ UNCHANGED <<job, nodes, status, raised, iterVars>>
        ELSE /\ answered' = Append(answered, "ad")
             /\ IF WantsDetail(detailed)
                THEN /\ pc' = "detail"
                     /\ job' = answer[1]
                     /\ status' = ZipStatus(answer[1])
                     /\ UNCHANGED <<nodes, raised, iterVars>>
                ELSE Return(ZipStatus(answer[1]), answer[1], << >>)
    /\ UNCHANGED <<schedVars, dagmanid, detailed, sleeps>>

\* except IndexError: job = list(schedd.history(..., 1))[0], whose own
\* IndexError on an empty answer propagates; else the record is returned
\* with its exitcode
HistoryQuery ==
    /\ UNCHANGED utilVars
    /\ pc = "hist"
    /\ qlog' = Append(qlog, HistoryRecord(dagmanid))
    /\ LET answer == HistoryQueryRecords(dagmanid, 1)
       IN  IF answer = << >>
           THEN /\ answered' = Append(answered, "empty")
                /\ Raise(IndexError)
           ELSE /\ answered' = Append(answered, "record")
                /\ \E ad \in HistoryAds(answer[1]) :
                    Return(WithExitCode(ZipStatus(ad), ad), ad, << >>)
    /\ UNCHANGED <<schedVars, dagmanid, detailed, sleeps>>

\* if detailed: the three counters at 0, the node-job query, the loop over
\* its ads, and the return
DetailQuery ==
    /\ UNCHANGED utilVars
    /\ pc = "detail"
    /\ qlog' = Append(qlog, NodeQueryRecord(dagmanid))
    /\ answered' = Append(answered, "nodes")
    /\ \E ns \in QueryDAGManJobId(dagmanid) :
        Return(CountNodes(DetailZero(status), ns), job, ns)
    /\ UNCHANGED <<schedVars, dagmanid, detailed, sleeps>>

---------------------------------------------------------------------------
(* The scheduler's own steps.                                              *)

\* a live DAG exits: its DAGMan job leaves the queue for the history
DagFinish(c, e) ==
    /\ UNCHANGED utilVars
    /\ c \in queue
    /\ queue' = queue \ {c}
    /\ history' = Append(history, [ClusterId |-> c, ExitCode |-> e])
    /\ UNCHANGED <<callVars, answered, iterVars>>

OldHistories == SeqsUpTo([ClusterId : ClusterIds, ExitCode : ExitCodes], MaxOld)

\* a cluster id is never given twice: a DAG in the queue has no history yet
InitSched ==
    /\ history \in OldHistories
    /\ queue \in SUBSET (ClusterIds \ {history[i].ClusterId : i \in DOMAIN history})

InitCall ==
    /\ pc = "idle"
    /\ dagmanid = 0
    /\ detailed = FALSE
    /\ job = NoJob
    /\ nodes = << >>
    /\ status = << >>
    /\ raised = ""
    /\ qlog = << >>
    /\ answered = << >>

IterOff ==
    /\ itPc = "off"
    /\ yielded = << >>
    /\ sleeps = 0

---------------------------------------------------------------------------
(* iterate_dag_status                                                      *)

HasKeyTotal(st) == "total" \in DOMAIN st

\* if 'exitcode' in status: break
BreakCondition(st) == "exitcode" \in DOMAIN st

\* iterate_dag_status(c) makes the generator; no line of it has run yet
IterStart(c) ==
    /\ UNCHANGED utilVars
    /\ itPc = "off"
    /\ itPc' = "start"
    /\ dagmanid' = c
    /\ UNCHANGED <<schedVars, pc, detailed, job, nodes, status, raised, qlog,
                   answered, yielded, sleeps>>

\* the consumer asks for the next snapshot: the generator runs from where
\* it stood (its start, or the yield) to the get_dag_status call of the
\* loop, or to the break
IterNext ==
    /\ UNCHANGED utilVars
    /\ \/ /\ itPc = "start"
          /\ UNCHANGED sleeps
          /\ itPc' = "polling"
       \/ /\ itPc = "yielded"
          /\ IF BreakCondition(status)
             THEN /\ itPc' = "done"
                  /\ UNCHANGED sleeps
             ELSE /\ Len(yielded) < MaxLivePolls \/ dagmanid \notin queue
                  /\ sleeps' = sleeps + 1
                  /\ itPc' = "polling"
    /\ IF itPc' = "polling"
       THEN /\ pc' = "live"
            /\ detailed' = TRUE
            /\ job' = NoJob
            /\ nodes' = << >>
            /\ status' = << >>
            /\ qlog' = << >>
       ELSE UNCHANGED <<pc, detailed, job, nodes, status, qlog>>
    /\ UNCHANGED <<schedVars, dagmanid, raised, answered, yielded>>

UtilOff ==
    /\ files = {}
    /\ fn = ""
    /\ fnPc = "idle"
    /\ dagfile = ""
    /\ result = NoResult
    /\ fnRaised = ""
    /\ checks = 0
    /\ cmd = << >>
    /\ rc = 0
    /\ out = << >>

Init == InitSched /\ InitCall /\ IterOff /\ UtilOff

Next ==
    \/ \E c \in ClusterIds, d \in BOOLEAN : Call(c, d)
    \/ LiveQuery
    \/ HistoryQuery
    \/ DetailQuery
    \/ \E c \in ClusterIds, e \in ExitCodes : DagFinish(c, e)

Spec == Init /\ [][Next]_vars

IterNextStep ==
    \/ \E c \in ClusterIds : IterStart(c)
    \/ IterNext
    \/ LiveQuery
    \/ HistoryQuery
    \/ DetailQuery
    \/ \E c \in ClusterIds, e \in ExitCodes : DagFinish(c, e)

\* a step of the generator and of the get_dag_status call it makes
IterStep == IterNext \/ LiveQuery \/ HistoryQuery \/ DetailQuery

\* the consumer keeps asking and the scheduler keeps answering, and the DAG
\* the generator watches exits in the end if it is in the queue
IterFairness ==
    /\ WF_vars(IterStep)
    /\ WF_vars(\E e \in ExitCodes : DagFinish(dagmanid, e))

IterSpec == Init /\ [][IterNextStep]_vars /\ IterFairness

---------------------------------------------------------------------------
(* The filesystem, find_rescue_dag and monitor_dag.                        *)
(* A file name is its stem, ".lock" or ".rescue", and, for a rescue DAG,   *)
(* the digits that follow.                                                 *)

\* files at hand when the model starts, at most
MaxFiles == 3
\* stat(lock) calls of one monitor_dag call that find the lock, at most
MaxChecks == 2

DagFiles == {"foo.dag", "bar.dag"}
\* a file may have any name, "%s.rescue001" too
Stems == DagFiles \cup {"%s"}
RescueNumbers == {1, 2, 10}

\* the three digits DAGMan writes for rescue DAG n
Pad3(n) == <<(n \div 100) % 10, (n \div 10) % 10, n % 10>>

LockFile(d) == [stem |-> d, ext |-> "lock", num |-> << >>]
RescueFile(d, n) == [stem |-> d, ext |-> "rescue", num |-> Pad3(n)]

FileNames ==
    {LockFile(d) : d \in DagFiles}
        \cup {RescueFile(d, n) : d \in Stems, n \in RescueNumbers}

OSError == "OSError"
NameError == "NameError"

\* the names bound in the module omicron.condor: its imports, tables,
\* functions and class
ModuleGlobals ==
    {"os", "re", "sleep", "stat", "glob", "htcondor", "pipeline", "shell",
     "which", "re_dagman_cluster", "JOB_STATUS", "JOB_STATUS_MAP",
     "JOB_UNIVERSE", "submit_dag", "monitor_dag", "find_rescue_dag",
     "iterate_dag_status", "get_dag_status", "OmicronProcessJob"}

\* '%s.rescue[0-9][0-9][0-9]': the string as written, which no % dagfile
\* follows
RescuePattern(d) == [stem |-> "%s", ext |-> "rescue", digits |-> 3]

\* glob(pattern): the files whose name is the pattern's text followed by as
\* many digits as it has [0-9]
Glob(pattern) ==
    {f \in files :
        /\ f.stem = pattern.stem
        /\ f.ext = pattern.ext
        /\ Len(f.num) = pattern.digits
        /\ \A k \in DOMAIN f.num : f.num[k] \in 0 .. 9}

RECURSIVE LexLess(_, _)
\* the order of str on two runs of digits
LexLess(a, b) ==
    IF a = << >> THEN b # << >>
    ELSE IF b = << >> THEN FALSE
    ELSE IF Head(a) # Head(b) THEN Head(a) < Head(b)
    ELSE LexLess(Tail(a), Tail(b))

RECURSIVE Sorted(_)
\* sorted(names) for names that differ in their digits only, as those of one
\* glob pattern do
Sorted(S) ==
    IF S = {} THEN << >>
    ELSE LET least == CHOOSE f \in S : \A g \in S \ {f} : LexLess(f.num, g.num)
         IN  <<least>> \o Sorted(S \ {least})

\* stat(path)
Stat(path) == IF path \in files THEN "" ELSE OSError

\* find_rescue_dag(d): sorted(glob(...))[-1], or the IndexError of [-1] on
\* an empty list, raised again with a new message
FindRescueDagOutcome(d) ==
    LET found == Sorted(Glob(RescuePattern(d)))
    IN  IF found = << >>
        THEN [raised |-> IndexError, value |-> NoResult]
        ELSE [raised |-> "", value |-> found[Len(found)]]

\* a caller calls find_rescue_dag(d)
FindRescueDag(d) ==
    /\ fnPc # "monitoring"
    /\ fn' = "find_rescue_dag"
    /\ dagfile' = d
    /\ LET o == FindRescueDagOutcome(d)
       IN  /\ fnRaised' = o.raised
           /\ result' = o.value
           /\ fnPc' = IF o.raised = "" THEN "returned" ELSE "raised"
    /\ checks' = 0
    /\ UNCHANGED <<schedVars, callVars, answered, iterVars, files, toolVars>>

\* a caller calls monitor_dag(d): the first stat(lock), before the loop
MonitorDag(d) ==
    /\ fnPc # "monitoring"
    /\ fn' = "monitor_dag"
    /\ dagfile' = d
    /\ result' = NoResult
    /\ checks' = 0
    /\ fnRaised' = Stat(LockFile(d))
    /\ fnPc' = IF Stat(LockFile(d)) = "" THEN "monitoring" ELSE "raised"
    /\ UNCHANGED <<schedVars, callVars, answered, iterVars, files, toolVars>>

\* one turn of the loop of monitor_dag: sleep(interval), stat(lock); and,
\* once stat raised OSError, the break and the call after the loop, of a
\* name the module does not bind
MonitorCheck ==
    /\ fn = "monitor_dag"
    /\ fnPc = "monitoring"
    /\ IF Stat(LockFile(dagfile)) = ""
       THEN /\ checks < MaxChecks
            /\ checks' = checks + 1
            /\ UNCHANGED <<fnPc, fnRaised, result>>
       ELSE /\ checks' = checks + 1
            /\ result' = NoResult
            /\ IF "find_rescue" \in ModuleGlobals
               THEN /\ fnPc' = "returned"
                    /\ UNCHANGED fnRaised
               ELSE /\ fnPc' = "raised"
                    /\ fnRaised' = NameError
    /\ UNCHANGED <<schedVars, callVars, answered, iterVars, files, fn, dagfile,
                   toolVars>>

\* DAGMan ends and removes the lock file of its DAG
RemoveLock(d) ==
    /\ LockFile(d) \in files
    /\ files' = files \ {LockFile(d)}
    /\ UNCHANGED <<schedVars, callVars, answered, iterVars, fn, fnPc, dagfile,
                   result, fnRaised, checks, toolVars>>

\* DAGMan, or anyone, writes a rescue DAG
WriteRescue(d, n) ==
    /\ RescueFile(d, n) \notin files
    /\ Cardinality(files) < MaxFiles
    /\ files' = files \cup {RescueFile(d, n)}
    /\ UNCHANGED <<schedVars, callVars, answered, iterVars, fn, fnPc, dagfile,
                   result, fnRaised, checks, toolVars>>

StatusOff ==
    /\ queue = {}
    /\ history = << >>
    /\ InitCall
    /\ IterOff

FsInit ==
    /\ StatusOff
    /\ files \in {F \in SUBSET FileNames : Cardinality(F) <= MaxFiles}
    /\ fn = ""
    /\ fnPc = "idle"
    /\ dagfile = ""
    /\ result = NoResult
    /\ fnRaised = ""
    /\ checks = 0
    /\ cmd = << >>
    /\ rc = 0
    /\ out = << >>

FsNext ==
    \/ \E d \in DagFiles : FindRescueDag(d)
    \/ \E d \in DagFiles : MonitorDag(d)
    \/ MonitorCheck
    \/ \E d \in DagFiles : RemoveLock(d)
    \/ \E d \in Stems, n \in RescueNumbers : WriteRescue(d, n)

FsSpec == FsInit /\ [][FsNext]_vars

---------------------------------------------------------------------------
(* submit_dag.  A text is the sequence of its characters.                  *)

WordSubmitted == <<"s", "u", "b", "m", "i", "t", "t", "e", "d">>
WordSubmited == <<"s", "u", "b", "m", "i", "t", "e", "d">>
WordTo == <<"t", "o">>
WordCluster == <<"c", "l", "u", "s", "t", "e", "r">>

DigitChars == <<"0", "1", "2", "3", "4", "5", "6", "7", "8", "9">>
IsDigit(ch) == \E k \in DOMAIN DigitChars : DigitChars[k] = ch
DigitValue(ch) == (CHOOSE k \in DOMAIN DigitChars : DigitChars[k] = ch) - 1

\* the characters \s matches
Whitespace == {" ", "\t", "\n", "\r", "\f"}

\* the lookbehind of re_dagman_cluster, '(?<=submitted\sto\scluster )':
\* a character stands for itself and "\\s" for the class
LookBehind ==
    WordSubmitted \o <<"\\s">> \o WordTo \o <<"\\s">> \o WordCluster \o <<" ">>

PatternCharMatches(p, ch) == IF p = "\\s" THEN ch \in Whitespace ELSE ch = p

\* re_dagman_cluster can match at i: the lookbehind fits the characters
\* before i, and [0-9]+ finds a digit at i
MatchesAt(o, i) ==
    /\ i \in DOMAIN o
    /\ i > Len(LookBehind)
    /\ \A k \in DOMAIN LookBehind :
        PatternCharMatches(LookBehind[k], o[i - Len(LookBehind) + k - 1])
    /\ IsDigit(o[i])

SingleDigit(o, i) == i

RECURSIVE DigitRunEnd(_, _)
\* [0-9]+ is greedy: the last digit of the run that starts at i
DigitRunEnd(o, i) ==
    IF i < Len(o) /\ IsDigit(o[i + 1]) THEN DigitRunEnd(o, i + 1) ELSE i

NoMatch == [none |-> TRUE]

\* re_dagman_cluster.search(o): the leftmost match, or None
Search(o) ==
    IF \E i \in DOMAIN o : MatchesAt(o, i)
    THEN LET i == CHOOSE i \in DOMAIN o :
                    MatchesAt(o, i) /\ \A k \in 1 .. (i - 1) : ~MatchesAt(o, k)
         IN  [group |-> SubSeq(o, i, DigitRunEnd(o, i))]
    ELSE NoMatch

RECURSIVE ParseInt(_)
\* int(text) of a run of digits
ParseInt(t) ==
    IF t = << >> THEN 0
    ELSE 10 * ParseInt(SubSeq(t, 1, Len(t) - 1)) + DigitValue(t[Len(t)])

AttributeError == "AttributeError"
CalledProcessError == "CalledProcessError"

\* what condor_submit_dag may print
Preambles == {<< >>, <<"1", " ", "j", "o", "b", "(", "s", ")", " ">>}
FirstWords == {WordSubmitted, WordSubmited}
Gaps == {<<" ">>, <<"\t">>, <<"\n">>, << >>}
LastGaps == {<<" ">>, <<"\n">>}
Numbers == {<< >>, <<"7">>, <<"4", "8", "2", "1">>}
Endings == {<< >>, <<".", "\n">>}

Outputs ==
    {a \o w \o g1 \o WordTo \o g2 \o WordCluster \o g3 \o n \o z :
        a \in Preambles, w \in FirstWords, g1 \in Gaps, g2 \in Gaps,
        g3 \in LastGaps, n \in Numbers, z \in Endings}

\* shell(cmd): the output of the command, or CalledProcessError when it
\* exits non-zero
ShellOutcomes ==
    {[rc |-> 1, out |-> << >>]} \cup {[rc |-> 0, out |-> o] : o \in Outputs}

\* cmd = [which('condor_submit_dag')]; -force appended if force; dagfile
SubmitCommand(d, force) ==
    <<"condor_submit_dag">> \o (IF force THEN <<"-force">> ELSE << >>) \o <<d>>

\* a caller calls submit_dag(d, force); the function keeps nothing from one
\* call to the next, so a behaviour holds one call
SubmitDag(d, force) ==
    /\ fnPc = "idle"
    /\ fn' = "submit_dag"
    /\ dagfile' = d
    /\ cmd' = SubmitCommand(d, force)
    /\ checks' = 0
    /\ \E o \in ShellOutcomes :
        /\ rc' = o.rc
        /\ out' = o.out
        /\ IF o.rc # 0
           THEN /\ fnPc' = "raised"
                /\ fnRaised' = CalledProcessError
                /\ result' = NoResult
           ELSE IF Search(o.out) = NoMatch
           THEN /\ fnPc' = "raised"
                /\ fnRaised' = AttributeError
                /\ result' = NoResult
           ELSE /\ fnPc' = "returned"
                /\ fnRaised' = ""
                /\ result' = ParseInt(Search(o.out).group)
    /\ UNCHANGED <<schedVars, callVars, answered, iterVars, files>>

SubmitInit ==
    /\ StatusOff
    /\ UtilOff

SubmitNext == \E d \in DagFiles, force \in BOOLEAN : SubmitDag(d, force)

SubmitSpec == SubmitInit /\ [][SubmitNext]_vars

---------------------------------------------------------------------------
(* Properties of get_dag_status, under Spec.  A call has ended when pc is  *)
(* "returned" or "raised"; answered tells what the scheduler held when it  *)
(* was asked: <<"empty", "record">> is a DAG absent from the queue and     *)
(* present in the history.                                                 *)

CountersOfJob ==
    /\ status["total"] = job.DAG_NodesTotal
    /\ status["done"] = job.DAG_NodesDone
    /\ status["queued"] = job.DAG_NodesQueued
    /\ status["ready"] = job.DAG_NodesReady
    /\ status["unready"] = job.DAG_NodesUnready
    /\ status["failed"] = job.DAG_NodesFailed

RecordsOf(c) == {i \in DOMAIN history : history[i].ClusterId = c}

MostRecentExit(c) ==
    history[CHOOSE i \in RecordsOf(c) : \A k \in RecordsOf(c) : k <= i].ExitCode

C4_UnknownDagRaises ==
    /\ (pc \in {"returned", "raised"} /\ answered = <<"empty", "empty">>) =>
            /\ pc = "raised"
            /\ raised = IndexError
            /\ status = << >>
    /\ (pc = "raised" \/ raised # "") => answered = <<"empty", "empty">>
    /\ (pc \in {"returned", "raised"} /\ answered = <<"empty", "record">>) =>
            /\ pc = "returned"
            /\ raised = ""

C4_Witness ==
    /\ pc = "raised"
    /\ raised = IndexError
    /\ dagmanid \notin queue
    /\ RecordsOf(dagmanid) = {}
    /\ history # << >>

QueryOrder ==
    /\ Len(qlog) <= 2
    /\ Len(answered) = Len(qlog)
    /\ qlog # << >> =>
        qlog[1] = [op |-> "query", attr |-> "ClusterId", val |-> dagmanid]
    /\ Len(qlog) = 2 =>
        \/ /\ qlog[2] = [op |-> "history", attr |-> "ClusterId", val |-> dagmanid]
           /\ answered[1] = "empty"
        \/ /\ qlog[2] = [op |-> "query", attr |-> "DAGManJobId", val |-> dagmanid]
           /\ answered[1] = "ad"
           /\ detailed
    /\ pc \in {"returned", "raised"} => Len(qlog) \in {1, 2}
    /\ pc = "live" <=> (qlog = << >> /\ dagmanid \in ClusterIds)

\* C8: a call asks the queue first; it asks the history only after the queue
\* answered empty, and the node jobs only after the queue answered with the
\* DAG and detailed is on; a call that has ended has made one or two remote
\* calls; no step of the call changes the queue or the history.
C8_QueryOrder ==
    /\ []QueryOrder
    /\ [][qlog' # qlog => UNCHANGED schedVars]_vars
    /\ [][qlog' # qlog /\ qlog' # << >> =>
            /\ Len(qlog') = Len(qlog) + 1
            /\ SubSeq(qlog', 1, Len(qlog)) = qlog]_vars

C8_Witness ==
    /\ pc = "returned"
    /\ Len(qlog) = 2
    /\ qlog[1].attr = "ClusterId"
    /\ qlog[2].attr = "DAGManJobId"
    /\ dagmanid \notin queue

NodesWithCode(code) ==
    Cardinality({i \in DOMAIN nodes : nodes[i].JobStatus = code})

\* C9: in a detailed snapshot of a live DAG held, running and idle are the
\* numbers of node jobs, among those the query DAGManJobId == dagmanid gave,
\* with JobStatus 5, 2 and 1; jobs with status 0, 3, 4 or 6 count nowhere,
\* so the three add up to the number of the others, at most the number of
\* jobs.
C9_DetailCounters ==
    (pc = "returned" /\ detailed /\ answered # << >> /\ answered[1] = "ad") =>
        /\ qlog[2] = [op |-> "query", attr |-> "DAGManJobId", val |-> dagmanid]
        /\ \A i \in DOMAIN nodes : nodes[i].DAGManJobId = dagmanid
        /\ status["held"] = NodesWithCode(5)
        /\ status["running"] = NodesWithCode(2)
        /\ status["idle"] = NodesWithCode(1)
        /\ status["held"] + status["running"] + status["idle"] =
             Len(nodes) - NodesWithCode(0) - NodesWithCode(3)
                        - NodesWithCode(4) - NodesWithCode(6)
        /\ status["held"] + status["running"] + status["idle"] <= Len(nodes)

C9_Witness ==
    /\ pc = "returned"
    /\ detailed
    /\ Len(nodes) = 2
    /\ nodes[1].JobStatus = 5
    /\ nodes[2].JobStatus = 4
    /\ status["held"] = 1
    /\ status["running"] = 0
    /\ status["idle"] = 0

---------------------------------------------------------------------------
(* Properties of iterate_dag_status, under IterSpec.                       *)

HasExitCode(keys) == "exitcode" \in keys

\* the scheduler answered every poll but the last from the live queue and
\* the last from its history
LiveThenHistory ==
    /\ answered # << >>
    /\ answered[Len(answered)] = "record"
    /\ Len(answered) >= 2
    /\ answered[Len(answered) - 1] = "empty"
    /\ \A i \in 1 .. (Len(answered) - 2) : answered[i] \in {"ad", "nodes"}

LivePolls == Cardinality({i \in DOMAIN answered : answered[i] = "nodes"})

IterEnded ==
    itPc = "done" =>
        /\ yielded # << >>
        /\ HasExitCode(yielded[Len(yielded)])
        /\ \A i \in 1 .. (Len(yielded) - 1) : ~HasExitCode(yielded[i])
        /\ LiveThenHistory
        /\ Len(yielded) = LivePolls + 1

\* C1: when the DAG of a started generator is in the live queue and later
\* moves to the history, at any point between the polls and the queries,
\* the generator ends, having yielded a non-empty sequence whose last
\* snapshot has exitcode and no earlier one has; its length is the number of
\* polls answered from the live queue plus one (3 live polls and one from
\* history: 4 snapshots).
C1_IterateYieldsUntilExit ==
    /\ [](itPc = "start" /\ dagmanid \in queue => <>(itPc = "done"))
    /\ []IterEnded

C1_Witness ==
    /\ itPc = "done"
    /\ LivePolls = 3
    /\ Len(yielded) = 4
    /\ Len(history) > 0
    /\ history[Len(history)].ClusterId = dagmanid
    /\ sleeps = 3

\* C5: the generator ends only from the yield of a snapshot with exitcode,
\* and then neither yields nor polls again; after a snapshot without
\* exitcode its next step is one sleep and a new poll; it has slept once
\* between two snapshots; it is never ended while the DAG is in the queue.
C5_IterateEndsOnlyOnExit ==
    /\ [][itPc' = "done" /\ itPc # "done" =>
            /\ itPc = "yielded"
            /\ HasExitCode(yielded[Len(yielded)])
            /\ pc = "idle"
            /\ UNCHANGED <<yielded, sleeps, qlog, answered, pc>>]_vars
    /\ [][itPc = "done" =>
            UNCHANGED <<itPc, yielded, sleeps, qlog, answered, pc>>]_vars
    /\ [][itPc = "yielded" /\ ~HasExitCode(yielded[Len(yielded)])
            /\ itPc' # itPc =>
            /\ itPc' = "polling"
            /\ sleeps' = sleeps + 1
            /\ pc' = "live"
            /\ qlog' = << >>]_vars
    /\ [](itPc \in {"yielded", "done"} => sleeps = Len(yielded) - 1)
    /\ [](itPc = "done" => dagmanid \notin queue)

C5_Witness ==
    /\ itPc = "done"
    /\ sleeps = 2
    /\ Len(yielded) = 3
    /\ HasExitCode(yielded[3])

---------------------------------------------------------------------------
(* Properties of find_rescue_dag and monitor_dag, under FsSpec.            *)

RescuesOf(d) == {f \in files : f.stem = d /\ f.ext = "rescue" /\ Len(f.num) = 3}

NumberOf(f) == f.num[1] * 100 + f.num[2] * 10 + f.num[3]

\* C6: find_rescue_dag(d) returns, of the files d.rescueNNN that exist, the
\* one with the greatest number (d.rescue010 of 001, 002, 010), and raises
\* IndexError when there is none.
C6_FindsHighestRescue ==
    (fn = "find_rescue_dag" /\ fnPc \in {"returned", "raised"}) =>
        IF RescuesOf(dagfile) = {}
        THEN fnPc = "raised" /\ fnRaised = IndexError
        ELSE /\ fnPc = "returned"
             /\ result \in RescuesOf(dagfile)
             /\ \A f \in RescuesOf(dagfile) : NumberOf(f) <= NumberOf(result)

\* C10: monitor_dag(d) raises at once when d.lock is not there; else it
\* checks the lock once per sleep, stays in its loop while the lock is
\* there, and after the first check that finds it gone returns, rescue DAGs
\* or none.
C10_MonitorReturnsWhenLockGone ==
    fn = "monitor_dag" =>
        /\ fnPc = "raised" => (checks = 0 /\ fnRaised = OSError)
        /\ fnPc = "monitoring" => fnRaised = ""
        /\ fnPc = "returned" =>
            (fnRaised = "" /\ checks >= 1 /\ LockFile(dagfile) \notin files)

---------------------------------------------------------------------------
(* Properties of submit_dag, under SubmitSpec.                             *)

PhraseText == WordSubmitted \o <<" ">> \o WordTo \o <<" ">> \o WordCluster \o <<" ">>

\* out has "submitted to cluster " right before i, and a digit at i
PhraseAt(i) ==
    /\ i \in DOMAIN out
    /\ i > Len(PhraseText)
    /\ SubSeq(out, i - Len(PhraseText), i - 1) = PhraseText
    /\ IsDigit(out[i])

\* the same with any one whitespace character after "submitted" and after
\* "to"
LoosePhraseAt(i) ==
    /\ i \in DOMAIN out
    /\ i > 21
    /\ SubSeq(out, i - 21, i - 13) = WordSubmitted
    /\ out[i - 12] \in {" ", "\t", "\n", "\r", "\f"}
    /\ SubSeq(out, i - 11, i - 10) = WordTo
    /\ out[i - 9] \in {" ", "\t", "\n", "\r", "\f"}
    /\ SubSeq(out, i - 8, i - 2) = WordCluster
    /\ out[i - 1] = " "
    /\ IsDigit(out[i])

Pow10[k \in Nat] == IF k = 0 THEN 1 ELSE 10 * Pow10[k - 1]

\* the number N written in out from i on
NumberAt(i) ==
    LET j == CHOOSE j \in i .. Len(out) :
                /\ \A k \in i .. j : IsDigit(out[k])
                /\ j = Len(out) \/ ~IsDigit(out[j + 1])
        Weighted[k \in (i - 1) .. j] ==
            IF k = i - 1 THEN 0
            ELSE Weighted[k - 1] + DigitValue(out[k]) * Pow10[j - k]
    IN  Weighted[j]

SubmitEnded == fn = "submit_dag" /\ fnPc \in {"returned", "raised"}

\* C7 as stated: N is returned when out has the phrase "submitted to
\* cluster N"; a tool that ran and printed no such phrase gives the parse
\* error, another error than that of a tool that exited non-zero; no
\* cluster id in either failure.
C7_AsStated ==
    SubmitEnded =>
        IF rc # 0
        THEN fnPc = "raised" /\ fnRaised = CalledProcessError /\ result = NoResult
        ELSE IF \E i \in DOMAIN out : PhraseAt(i)
        THEN /\ fnPc = "returned"
             /\ \E i \in DOMAIN out : PhraseAt(i) /\ result = NumberAt(i)
        ELSE /\ fnPc = "raised"
             /\ fnRaised = AttributeError
             /\ fnRaised # CalledProcessError
             /\ result = NoResult

\* C7, amended: the same, the phrase being "submitted", "to", "cluster" with
\* one whitespace character of any kind after each of the first two words
\* and a space before N.
C7_SubmitParsesClusterId ==
    SubmitEnded =>
        IF rc # 0
        THEN fnPc = "raised" /\ fnRaised = CalledProcessError /\ result = NoResult
        ELSE IF \E i \in DOMAIN out : LoosePhraseAt(i)
        THEN /\ fnPc = "returned"
             /\ \E i \in DOMAIN out : LoosePhraseAt(i) /\ result = NumberAt(i)
        ELSE /\ fnPc = "raised"
             /\ fnRaised = AttributeError
             /\ fnRaised # CalledProcessError
             /\ result = NoResult

C7_Witness ==
    /\ SubmitEnded
    /\ rc = 0
    /\ \E i \in DOMAIN out : PhraseAt(i)
    /\ out[Len(out)] = "\n"
    /\ result = 4821

===========================================================================
